---- MODULE Spec2Model ----
(***************************************************************************)
(* Model of the avs-scaffold generation engine:                            *)
(*   - the create command action of the CLI entry point, and             *)
(*   - scaffoldProject / createProjectStructure /                          *)
(*     generateOffChainComponents of src/generators/scaffold.ts.           *)
(*                                                                         *)
(* The disk under process.cwd() persists across invocations; one           *)
(* invocation runs at a time (the CLI is a sequential process).  Every     *)
(* awaited filesystem call is one step, which either succeeds or rejects.  *)
(* Strings that are interpolated are sequences of one-character strings;   *)
(* literal template text is kept as multi-character atoms.                 *)
(***************************************************************************)
EXTENDS Integers, Sequences, FiniteSets, TLC

VARIABLES
    bundled,              \* the resources shipped beside the compiled code
    disk,                 \* the directory trees under process.cwd()
    pc,                   \* "idle" | "pathExists" | "prompt" | "structure" | "exited"
    i,                    \* index of the next call of Plan
    projectName,          \* scaffoldProject's projectName parameter
    template,             \* scaffoldProject's template parameter
    answers,              \* what inquirer.prompt resolved to
    packageJsonTemplate,  \* the body handed to Handlebars.compile
    out,                  \* console.log / console.error lines of this invocation
    exitCode,             \* the process's exit code, once it has exited
    error,                \* the kind of the error that reached the catch block
    calls,                \* filesystem and prompt calls of this invocation
    before                \* the disk as it was when the invocation started

vars == <<bundled, disk, pc, i, projectName, template, answers,
          packageJsonTemplate, out, exitCode, error, calls, before>>

----------------------------------------------------------------------------
(* Inputs *)

\* projectName || 'my-avs'
DefaultProjectName == <<"m", "y", "-", "a", "v", "s">>

\* Project names given on the command line or typed at the prompt.
ProjectNames == {DefaultProjectName, <<"a", "&", "b">>}

NoArgument == <<>>

\* choices: ['task-based', 'oracle']
Templates == {"task-based", "oracle"}

\* default: 'An EigenLayer AVS project'
DefaultDescription ==
    <<"A", "n", " ", "E", "i", "g", "e", "n", "L", "a", "y", "e", "r", " ",
      "A", "V", "S", " ", "p", "r", "o", "j", "e", "c", "t">>

Descriptions == {DefaultDescription, <<"x", "<", "'", ">">>}

\* answers before inquirer.prompt has resolved
NoAnswers == [projectName |-> <<>>, template |-> "", description |-> <<>>]

----------------------------------------------------------------------------
(* Bundled resources *)

\* The four sources copied from path.join(__dirname, '../../contracts').
StaticResources ==
    {"interfaces", "TaskMailbox.sol", "TaskAVSRegistrar.sol", "SlashingConditions.sol"}

\* At most this many of the four are missing while the contracts root exists.
MaxMissing == 1

BundledStates ==
    { [contracts |-> c, present |-> p, template |-> t] :
        c \in BOOLEAN, p \in SUBSET StaticResources, t \in BOOLEAN }

\* A resource exists only inside an existing contracts root.
PackagedStates ==
    { b \in BundledStates :
        IF b.contracts
        THEN Cardinality(StaticResources \ b.present) <= MaxMissing
        ELSE b.present = {} }

----------------------------------------------------------------------------
(* Handlebars *)

Text(t) == [kind |-> "text", text |-> t]
Mustache(n) == [kind |-> "mustache", name |-> n]

PkgNameOpen == "{\n  \"name\": \""
PkgDescriptionOpen == "\",\n  \"version\": \"0.1.0\",\n  \"description\": \""
PkgTail == "\",\n  \"scripts\": {...},\n  \"devDependencies\": {...}\n}"

getDefaultPackageJsonTemplate ==
    << Text(PkgNameOpen), Mustache("projectName"),
       Text(PkgDescriptionOpen), Mustache("description"),
       Text(PkgTail) >>

\* templates/package.json.hbs: shipped beside the code, its variables are
\* projectName and description.
BundledPkgHeader == "package.json.hbs\n"

BundledPackageJsonTemplate ==
    << Text(BundledPkgHeader) >> \o getDefaultPackageJsonTemplate

\* Handlebars.Utils.escapeExpression, applied by {{name}} (the grave accent,
\* which it turns into &#x60;, cannot be written in a string here).
EscapeChar(c) ==
    CASE c = "&"  -> <<"&", "a", "m", "p", ";">>
      [] c = "<"  -> <<"&", "l", "t", ";">>
      [] c = ">"  -> <<"&", "g", "t", ";">>
      [] c = "\"" -> <<"&", "q", "u", "o", "t", ";">>
      [] c = "'"  -> <<"&", "#", "x", "2", "7", ";">>
      [] c = "="  -> <<"&", "#", "x", "3", "D", ";">>
      [] OTHER    -> <<c>>

RECURSIVE escapeExpression(_)
escapeExpression(s) ==
    IF s = <<>> THEN <<>>
    ELSE EscapeChar(Head(s)) \o escapeExpression(Tail(s))

\* The context is the whole answers object.
Lookup(config, name) ==
    CASE name = "projectName" -> config.projectName
      [] name = "description" -> config.description
      [] name = "template"    -> <<config.template>>
      [] OTHER                -> <<>>

RenderToken(tok, config) ==
    IF tok.kind = "text" THEN <<tok.text>>
    ELSE escapeExpression(Lookup(config, tok.name))

RECURSIVE Render(_, _)
Render(body, config) ==
    IF body = <<>> THEN <<>>
    ELSE RenderToken(Head(body), config) \o Render(Tail(body), config)

----------------------------------------------------------------------------
(* JSON *)

\* JSON.stringify of a string value (fs.writeJSON).
JsonEscapeChar(c) ==
    CASE c = "\"" -> <<"\\", "\"">>
      [] c = "\\" -> <<"\\", "\\">>
      [] OTHER    -> <<c>>

RECURSIVE JsonString(_)
JsonString(s) ==
    IF s = <<>> THEN <<>>
    ELSE JsonEscapeChar(Head(s)) \o JsonString(Tail(s))

OffChainSuffix == <<"-", "o", "f", "f", "-", "c", "h", "a", "i", "n">>
OffChainNameOpen == "{\n  \"name\": \""
OffChainTail ==
    "\",\n  \"version\": \"0.1.0\",\n  \"type\": \"module\",\n  \"dependencies\": {...}\n}\n"

\* offChainPackageJson written with { spaces: 2 }
OffChainPackageJson(config) ==
    <<OffChainNameOpen>> \o JsonString(config.projectName \o OffChainSuffix)
        \o <<OffChainTail>>

\* The literal text pieces of the JSON files: everything else is a character
\* of a string value.
JsonText ==
    {PkgNameOpen, PkgDescriptionOpen, PkgTail, BundledPkgHeader,
     OffChainNameOpen, OffChainTail}

\* the characters of a JSON string value, a backslash escaping the next one
RECURSIVE StringFrom(_, _)
StringFrom(content, k) ==
    IF k > Len(content) \/ content[k] \in JsonText THEN <<>>
    ELSE IF content[k] = "\\" /\ k < Len(content)
         THEN <<content[k + 1]>> \o StringFrom(content, k + 2)
         ELSE <<content[k]>> \o StringFrom(content, k + 1)

\* JSON.parse(content)[key], for the string value that follows the text open.
JsonField(content, open) ==
    LET ks == { k \in 1..Len(content) : content[k] = open }
    IN  IF ks = {} THEN <<>>
        ELSE StringFrom(content, (CHOOSE k \in ks : \A j \in ks : k <= j) + 1)

----------------------------------------------------------------------------
(* The disk *)

Root == "."

\* path.dirname, for the paths of the generated layout
Parent(p) ==
    CASE p \in {"contracts", "scripts", "test", "off-chain", "package.json",
                "hardhat.config.ts"}                               -> Root
      [] p \in {"contracts/interfaces", "contracts/TaskMailbox.sol",
                "contracts/TaskAVSRegistrar.sol",
                "contracts/SlashingConditions.sol"}                -> "contracts"
      [] p = "contracts/interfaces/*"                    -> "contracts/interfaces"
      [] p = "scripts/deploy.ts"                         -> "scripts"
      [] p = "test/TaskMailbox.test.ts"                  -> "test"
      [] p \in {"off-chain/aggregator", "off-chain/executor",
                "off-chain/package.json"}                -> "off-chain"
      [] p = "off-chain/aggregator/index.ts"             -> "off-chain/aggregator"
      [] p = "off-chain/executor/index.ts"               -> "off-chain/executor"
      [] OTHER                                           -> Root

RECURSIVE Ancestors(_)
Ancestors(p) == IF p = Root THEN {} ELSE {Parent(p)} \union Ancestors(Parent(p))

\* the files of contracts/interfaces, as one entry
InterfaceFiles == "contracts/interfaces/*"

NoFiles == [p \in {} |-> <<>>]
Absent == [dirs |-> {}, files |-> NoFiles]

\* mutant: the precondition check that never finds the path
pathExistsUnchecked(tree) == FALSE

\* fs.pathExists(projectPath)
pathExists(tree) == Root \in tree.dirs

\* fs.ensureDir: mkdir -p, a no-op on an existing directory
ensureDir(tree, p) ==
    [tree EXCEPT !.dirs = @ \union {p} \union Ancestors(p)]

\* fs.writeFile / fs.writeJSON: create or overwrite
writeFile(tree, p, content) ==
    [tree EXCEPT !.files = (p :> content) @@ @]

\* fs.copy of a file, or of a directory's content (its files, as one entry
\* "<dir>/*"); the destination's parent directories are created as needed.
copy(tree, src, dst) ==
    IF src = "interfaces"
    THEN [dirs  |-> tree.dirs \union {dst} \union Ancestors(dst),
          files |-> (InterfaceFiles :> <<"bundled:", src, "/*">>) @@ tree.files]
    ELSE [dirs  |-> tree.dirs \union Ancestors(dst),
          files |-> (dst :> <<"bundled:", src>>) @@ tree.files]

----------------------------------------------------------------------------
(* The calls of scaffoldProject and createProjectStructure, in order *)

\* mutant: the path follows the name answered at the prompt
promptedProjectPath ==
    IF answers = NoAnswers THEN projectName ELSE answers.projectName

\* const projectPath = path.join(process.cwd(), projectName)
projectPath == projectName

\* mutant: the oracle template gets a directory of its own
DirectoriesByTemplate(config) ==
    <<"contracts", "contracts/interfaces", "scripts", "test", "off-chain",
      "off-chain/aggregator", "off-chain/executor">>
    \o (IF config.template = "oracle" THEN <<"oracle">> ELSE <<>>)

\* mutant: the scripts directory is not created
DirectoriesWithoutScripts(config) ==
    <<"contracts", "contracts/interfaces", "test", "off-chain",
      "off-chain/aggregator", "off-chain/executor">>

\* fs.ensureDir(path.join(projectPath, ...)), seven times
Directories(config) ==
    <<"contracts", "contracts/interfaces", "scripts", "test", "off-chain",
      "off-chain/aggregator", "off-chain/executor">>

\* fs.copy(path.join(contractsPath, src), path.join(projectPath, dst))
StaticCopies(config) ==
    << [src |-> "interfaces",             dst |-> "contracts/interfaces"],
       [src |-> "TaskMailbox.sol",        dst |-> "contracts/TaskMailbox.sol"],
       [src |-> "TaskAVSRegistrar.sol",   dst |-> "contracts/TaskAVSRegistrar.sol"],
       [src |-> "SlashingConditions.sol", dst |-> "contracts/SlashingConditions.sol"] >>

\* mutant: the test file is not generated
GeneratedFilesWithoutTest(config) ==
    << [op |-> "writeFile", path |-> "package.json"],
       [op |-> "writeFile", path |-> "hardhat.config.ts"],
       [op |-> "writeFile", path |-> "scripts/deploy.ts"],
       [op |-> "writeFile", path |-> "off-chain/aggregator/index.ts"],
       [op |-> "writeFile", path |-> "off-chain/executor/index.ts"],
       [op |-> "writeJSON", path |-> "off-chain/package.json"] >>

\* the files written by createProjectStructure and generateOffChainComponents
GeneratedFiles(config) ==
    << [op |-> "writeFile", path |-> "package.json"],
       [op |-> "writeFile", path |-> "hardhat.config.ts"],
       [op |-> "writeFile", path |-> "scripts/deploy.ts"],
       [op |-> "writeFile", path |-> "test/TaskMailbox.test.ts"],
       [op |-> "writeFile", path |-> "off-chain/aggregator/index.ts"],
       [op |-> "writeFile", path |-> "off-chain/executor/index.ts"],
       [op |-> "writeJSON", path |-> "off-chain/package.json"] >>

\* mutant: the bundled template is never used
loadEmbeddedOnly(b) == getDefaultPackageJsonTemplate

\* fs.readFile(package.json.hbs).catch(() => getDefaultPackageJsonTemplate())
loadTemplate(b) ==
    IF b.template THEN BundledPackageJsonTemplate ELSE getDefaultPackageJsonTemplate

\* what is written to each generated path
ContentOf(p, config, body) ==
    CASE p = "package.json"                  -> Render(body, config)
      [] p = "hardhat.config.ts"             -> <<"getHardhatConfig()">>
      [] p = "scripts/deploy.ts"             -> <<"getDeployScript()">>
      [] p = "test/TaskMailbox.test.ts"      -> <<"getTestFile()">>
      [] p = "off-chain/aggregator/index.ts" -> <<"getAggregatorCode()">>
      [] p = "off-chain/executor/index.ts"   -> <<"getExecutorCode()">>
      [] p = "off-chain/package.json"        -> OffChainPackageJson(config)

Call(op, p, src) == [op |-> op, path |-> p, src |-> src]

\* mutant: each copy is guarded by the existence of its own source
CopyCallsOfPresent(config, b) ==
    IF b.contracts
    THEN SelectSeq([k \in 1..Len(StaticCopies(config)) |->
                       Call("copy", StaticCopies(config)[k].dst,
                            StaticCopies(config)[k].src)],
                   LAMBDA c : c.src \in b.present)
    ELSE <<>>

\* if (await fs.pathExists(contractsPath)) { four copies }
CopyCalls(config, b) ==
    IF b.contracts
    THEN [k \in 1..Len(StaticCopies(config)) |->
             Call("copy", StaticCopies(config)[k].dst, StaticCopies(config)[k].src)]
    ELSE <<>>

\* Every awaited call after the prompt, in program order.
Plan(config, b) ==
    << Call("ensureDir", Root, "") >>
    \o [k \in 1..Len(Directories(config)) |->
           Call("ensureDir", Directories(config)[k], "")]
    \o CopyCalls(config, b)
    \o << Call("readFile", "package.json.hbs", "") >>
    \o [k \in 1..Len(GeneratedFiles(config)) |->
           Call(GeneratedFiles(config)[k].op, GeneratedFiles(config)[k].path, "")]

\* The tree once the call has been acknowledged.
Execute(tree, call, config, body) ==
    CASE call.op = "ensureDir" -> ensureDir(tree, call.path)
      [] call.op = "copy"      -> copy(tree, call.src, call.path)
      [] call.op = "readFile"  -> tree
      [] call.op \in {"writeFile", "writeJSON"} ->
             writeFile(tree, call.path, ContentOf(call.path, config, body))

\* A write lands only in an existing directory (ENOENT otherwise).
CanSucceed(tree, call) ==
    call.op \in {"writeFile", "writeJSON"} => Parent(call.path) \in tree.dirs

----------------------------------------------------------------------------
(* Console *)

Log(text, arg) == [stream |-> "stdout", text |-> text, arg |-> arg]
ErrorLine(kind) == [stream |-> "stderr", text |-> "Error:", arg |-> <<kind>>]

\* one awaited call: what was called, on which project directory, and whether
\* it was acknowledged (ok) or rejected
Called(op, p, ok) == [op |-> op, base |-> projectPath, path |-> p, ok |-> ok]

----------------------------------------------------------------------------
(* Actions *)

Init ==
    /\ bundled \in PackagedStates
    /\ disk = [n \in ProjectNames |-> Absent]
    /\ pc = "idle"
    /\ i = 1
    /\ projectName = <<>>
    /\ template = ""
    /\ answers = NoAnswers
    /\ packageJsonTemplate = <<>>
    /\ out = <<>>
    /\ exitCode = -1
    /\ error = "none"
    /\ calls = <<>>
    /\ before = disk

\* mutant: the handler removes what the invocation wrote
ThrowAfterRollback(kind) ==
    /\ pc' = "exited"
    /\ exitCode' = 1
    /\ error' = kind
    /\ out' = Append(out, ErrorLine(kind))
    /\ disk' = before

\* mutant: the handler prints the error and forgets process.exit(1)
ThrowSwallowed(kind) ==
    /\ pc' = "exited"
    /\ exitCode' = 0
    /\ error' = kind
    /\ out' = Append(out, ErrorLine(kind))
    /\ disk' = disk

\* catch (error) { console.error(chalk.red('Error:'), error.message); process.exit(1) }
Throw(kind) ==
    /\ pc' = "exited"
    /\ exitCode' = 1
    /\ error' = kind
    /\ out' = Append(out, ErrorLine(kind))
    /\ disk' = disk

\* avs-scaffold create [project-name] [--template t]
Invoke ==
    /\ pc \in {"idle", "exited"}
    /\ \E arg \in ProjectNames \union {NoArgument}, t \in Templates :
          /\ projectName' = IF arg = NoArgument THEN DefaultProjectName ELSE arg
          /\ template' = t
    /\ out' = <<Log("Creating new AVS project...", <<>>)>>
    /\ pc' = "pathExists"
    /\ i' = 1
    /\ answers' = NoAnswers
    /\ packageJsonTemplate' = <<>>
    /\ exitCode' = -1
    /\ error' = "none"
    /\ calls' = <<>>
    /\ before' = disk
    /\ UNCHANGED <<bundled, disk>>

\* if (await fs.pathExists(projectPath)) throw new Error(...already exists)
CheckExists ==
    /\ pc = "pathExists"
    /\ calls' = Append(calls, Called("pathExists", Root, TRUE))
    /\ IF pathExists(disk[projectPath])
       THEN Throw("DirectoryExists")
       ELSE /\ pc' = "prompt"
            /\ UNCHANGED <<disk, out, exitCode, error>>
    /\ UNCHANGED <<bundled, i, projectName, template, answers,
                   packageJsonTemplate, before>>

\* const answers = await inquirer.prompt([...])
Prompt ==
    /\ pc = "prompt"
    /\ \E ok \in BOOLEAN :
          /\ calls' = Append(calls, Called("prompt", "", ok))
          /\ IF ok
             THEN /\ \E n \in ProjectNames, t \in Templates, d \in Descriptions :
                        answers' = [projectName |-> n, template |-> t,
                                    description |-> d]
                  /\ pc' = "structure"
                  /\ UNCHANGED <<disk, out, exitCode, error>>
             ELSE /\ Throw("PromptCancelled")
                  /\ UNCHANGED answers
    /\ UNCHANGED <<bundled, i, projectName, template, packageJsonTemplate, before>>

\* the lines printed once call number k has been acknowledged
Progress(k, config, b) ==
    IF k = 1
    THEN <<Log("Created directory: ", config.projectName)>>
    ELSE IF k = Len(Plan(config, b))
         THEN <<Log("Project scaffolded successfully!", <<>>),
                Log("Project created successfully!", <<>>)>>
         ELSE <<>>

\* the call has been acknowledged: go on to the next one, or return
Acknowledge(tree) ==
    /\ disk' = [disk EXCEPT ![projectPath] = tree]
    /\ out' = out \o Progress(i, answers, bundled)
    /\ i' = i + 1
    /\ IF i = Len(Plan(answers, bundled))
       THEN pc' = "exited" /\ exitCode' = 0
       ELSE UNCHANGED <<pc, exitCode>>
    /\ UNCHANGED error

NextCall == Plan(answers, bundled)[i]

Running == pc = "structure" /\ i <= Len(Plan(answers, bundled))

\* await fs.ensureDir(...)
EnsureDir ==
    /\ Running
    /\ NextCall.op = "ensureDir"
    /\ \E ok \in BOOLEAN :
          /\ calls' = Append(calls, Called("ensureDir", NextCall.path, ok))
          /\ IF ok
             THEN Acknowledge(Execute(disk[projectPath], NextCall, answers,
                                      packageJsonTemplate))
             ELSE Throw("FilesystemWriteFailure") /\ UNCHANGED i
    /\ UNCHANGED <<bundled, projectName, template, answers, packageJsonTemplate,
                   before>>

\* await fs.copy(...)
Copy ==
    /\ Running
    /\ NextCall.op = "copy"
    /\ \E ok \in (IF NextCall.src \in bundled.present THEN BOOLEAN ELSE {FALSE}) :
          /\ calls' = Append(calls, Called("copy", NextCall.path, ok))
          /\ IF ok
             THEN Acknowledge(Execute(disk[projectPath], NextCall, answers,
                                      packageJsonTemplate))
             ELSE /\ Throw(IF NextCall.src \in bundled.present
                           THEN "FilesystemWriteFailure"
                           ELSE "ResourceReadFailure")
                  /\ UNCHANGED i
    /\ UNCHANGED <<bundled, projectName, template, answers, packageJsonTemplate,
                   before>>

\* Handlebars.compile(await fs.readFile(...).catch(...))
ReadTemplate ==
    /\ Running
    /\ NextCall.op = "readFile"
    /\ calls' = Append(calls, Called("readFile", NextCall.path, bundled.template))
    /\ packageJsonTemplate' = loadTemplate(bundled)
    /\ Acknowledge(disk[projectPath])
    /\ UNCHANGED <<bundled, projectName, template, answers, before>>

\* await fs.writeFile(...) / await fs.writeJSON(...)
WriteFile ==
    /\ Running
    /\ NextCall.op \in {"writeFile", "writeJSON"}
    /\ \E ok \in (IF CanSucceed(disk[projectPath], NextCall)
                  THEN BOOLEAN ELSE {FALSE}) :
          /\ calls' = Append(calls, Called(NextCall.op, NextCall.path, ok))
          /\ IF ok
             THEN Acknowledge(Execute(disk[projectPath], NextCall, answers,
                                      packageJsonTemplate))
             ELSE Throw("FilesystemWriteFailure") /\ UNCHANGED i
    /\ UNCHANGED <<bundled, projectName, template, answers, packageJsonTemplate,
                   before>>

Next ==
    \/ Invoke
    \/ CheckExists
    \/ Prompt
    \/ EnsureDir
    \/ Copy
    \/ ReadTemplate
    \/ WriteFile

Spec == Init /\ [][Next]_vars

----------------------------------------------------------------------------
(* What a run has done *)

Exited == pc = "exited"

\* the target path did not exist when the invocation started
FreshTarget == pc # "idle" /\ Root \notin before[projectPath].dirs

Tree == disk[projectPath]

\* the call (op, p) was acknowledged in this invocation
Acknowledged(op, p) ==
    \E k \in 1..Len(calls) : calls[k].op = op /\ calls[k].path = p /\ calls[k].ok

Wrote(p) == Acknowledged("writeFile", p) \/ Acknowledged("writeJSON", p)

\* the generated layout of the spec, section 6
ContractFiles ==
    {"contracts/TaskMailbox.sol", "contracts/TaskAVSRegistrar.sol",
     "contracts/SlashingConditions.sol", "contracts/interfaces/*"}

WrittenFiles ==
    {"package.json", "hardhat.config.ts", "scripts/deploy.ts",
     "test/TaskMailbox.test.ts", "off-chain/package.json",
     "off-chain/aggregator/index.ts", "off-chain/executor/index.ts"}

FixedFileSet == ContractFiles \union WrittenFiles

\* the prompt was answered and no filesystem write was rejected
NoExternalFailure == error \notin {"PromptCancelled", "FilesystemWriteFailure"}

AllBundled == bundled.contracts /\ bundled.present = StaticResources

----------------------------------------------------------------------------
(* C1 *)

\* C1: when the target path exists at the start of an invocation, the
\* invocation ends with the DirectoryExists error and exit code 1, its only
\* call is the pathExists check (no prompt, no ensureDir, no copy, no write),
\* and the disk stays equal to the disk before the invocation.
C1_ExistingTargetIsUntouched ==
    (pc # "idle" /\ Root \in before[projectPath].dirs) =>
        /\ disk = before
        /\ answers = NoAnswers
        /\ \/ pc = "pathExists" /\ calls = <<>>
           \/ /\ Exited
              /\ exitCode = 1
              /\ error = "DirectoryExists"
              /\ Len(calls) = 1
              /\ calls[1].op = "pathExists"

\* a second invocation on a name whose first invocation wrote the whole project
C1_Witness ==
    /\ Exited
    /\ error = "DirectoryExists"
    /\ DOMAIN before[projectPath].files = FixedFileSet

----------------------------------------------------------------------------
(* C2 *)

\* C2 as stated: from a target path that does not exist, with the prompt
\* answered and every write acknowledged, generation succeeds and leaves
\* exactly the fixed file set, whatever resources are bundled.
C2_AsStated ==
    (Exited /\ FreshTarget /\ NoExternalFailure) =>
        exitCode = 0 /\ DOMAIN Tree.files = FixedFileSet

\* C2, amended: from a target path that does not exist, with the prompt
\* answered and every write acknowledged: with the contracts root and its four
\* resources bundled, generation succeeds with exactly the fixed file set;
\* with no bundled contracts root it succeeds with exactly the seven written
\* files and no file under contracts/; with the root bundled and a resource
\* missing it does not succeed.
C2_FileSetByBundle ==
    (Exited /\ FreshTarget /\ NoExternalFailure) =>
        IF AllBundled
        THEN exitCode = 0 /\ DOMAIN Tree.files = FixedFileSet
        ELSE IF ~bundled.contracts
             THEN exitCode = 0 /\ DOMAIN Tree.files = WrittenFiles
             ELSE exitCode = 1

C2_Witness ==
    /\ Exited
    /\ FreshTarget
    /\ exitCode = 0
    /\ AllBundled
    /\ DOMAIN Tree.files = FixedFileSet

----------------------------------------------------------------------------
(* C3 *)

\* C3: the name and description fields of the root package.json written by
\* this invocation equal the answered projectName and description, character
\* for character.
C3_FieldsVerbatim ==
    (pc # "idle" /\ Wrote("package.json")) =>
        /\ JsonField(Tree.files["package.json"], PkgNameOpen) = answers.projectName
        /\ JsonField(Tree.files["package.json"], PkgDescriptionOpen)
               = answers.description

----------------------------------------------------------------------------
(* C4 *)

\* the calls of createProjectStructure made so far (all but the pathExists
\* check and the prompt)
PlanCalls == SelectSeq(calls, LAMBDA c : c.op \notin {"pathExists", "prompt"})

\* a rejected read of the template is caught: the call still completes
Completed(c) == c.ok \/ c.op = "readFile"

\* C4 as stated: a static resource that cannot be read never stops the
\* generation: with the prompt answered and every write acknowledged, the
\* invocation succeeds and the seven written files are there.
C4_AsStated ==
    (Exited /\ FreshTarget /\ NoExternalFailure) =>
        exitCode = 0 /\ WrittenFiles \subseteq DOMAIN Tree.files

\* C4, amended: with the prompt answered and every write acknowledged, an
\* absent bundled contracts root is not fatal (no copy is attempted, the
\* seven written files are there, the invocation succeeds); a contracts root
\* that exists with one of its four resources missing is fatal: the copy of
\* the first missing resource is rejected, it is the last call, none of the
\* seven written files exists and the exit code is 1.
C4_OnlyAbsentRootIsSkipped ==
    (Exited /\ FreshTarget /\ NoExternalFailure) =>
        /\ ~bundled.contracts =>
              /\ exitCode = 0
              /\ \A k \in 1..Len(calls) : calls[k].op # "copy"
              /\ WrittenFiles \subseteq DOMAIN Tree.files
        /\ (bundled.contracts /\ bundled.present # StaticResources) =>
              /\ exitCode = 1
              /\ error = "ResourceReadFailure"
              /\ calls[Len(calls)].op = "copy"
              /\ ~calls[Len(calls)].ok
              /\ WrittenFiles \intersect DOMAIN Tree.files = {}

\* the interfaces were copied, then a missing contract file ended the run
C4_Witness ==
    /\ Exited
    /\ error = "ResourceReadFailure"
    /\ InterfaceFiles \in DOMAIN Tree.files

----------------------------------------------------------------------------
(* C5 *)

ReadRejected ==
    \E k \in 1..Len(calls) : calls[k].op = "readFile" /\ ~calls[k].ok

ReadAcknowledged ==
    \E k \in 1..Len(calls) : calls[k].op = "readFile" /\ calls[k].ok

\* C5: when the read of the bundled package.json template is rejected, the
\* body compiled is the embedded default, the invocation goes on (the
\* rejection is not the error of the invocation) and the root package.json,
\* once written, is the rendering of the embedded default; when the read is
\* acknowledged the bundled body is compiled, so the default is used only
\* after a rejected read.
C5_TemplateFallback ==
    /\ ReadRejected =>
          /\ packageJsonTemplate = getDefaultPackageJsonTemplate
          /\ error \in {"none", "FilesystemWriteFailure"}
          /\ calls[Len(calls)].op = "readFile" => pc = "structure" /\ exitCode = -1
          /\ Wrote("package.json") =>
                Tree.files["package.json"]
                    = Render(getDefaultPackageJsonTemplate, answers)
    /\ ReadAcknowledged =>
          /\ packageJsonTemplate = BundledPackageJsonTemplate
          /\ Wrote("package.json") =>
                Tree.files["package.json"]
                    = Render(BundledPackageJsonTemplate, answers)
    /\ packageJsonTemplate = getDefaultPackageJsonTemplate => ReadRejected

\* a successful generation whose template read was rejected
C5_Witness ==
    /\ Exited
    /\ exitCode = 0
    /\ ReadRejected
    /\ Tree.files["package.json"] = Render(getDefaultPackageJsonTemplate, answers)

----------------------------------------------------------------------------
(* C6 *)

Min(a, b) == IF a <= b THEN a ELSE b

RECURSIVE ReplayPlan(_, _, _, _)
ReplayPlan(plan, k, config, body) ==
    IF k = 0 THEN Absent
    ELSE Execute(ReplayPlan(plan, k - 1, config, body), plan[k], config, body)

\* the tree that the first k calls of the plan leave, from nothing
Replay(k, config) ==
    LET plan == Plan(config, bundled)
    IN  ReplayPlan(plan, Min(k, Len(plan)), config, loadTemplate(bundled))

----------------------------------------------------------------------------
(* C7 *)

SuccessLines ==
    {Log("Project scaffolded successfully!", <<>>),
     Log("Project created successfully!", <<>>)}

Printed(line) == \E k \in 1..Len(out) : out[k] = line

\* C7: an invocation ends with exit code 0 or 1.  Exit code 0: no error, every
\* call of the fixed sequence was made and completed, the seven written files
\* (and, with a bundled contracts root, the contract files) exist and both
\* success lines are printed.  Exit code 1: an error of one of the four kinds
\* reached the handler, the last line is the error line on stderr and no
\* success line is printed.  A rejected call other than the template read
\* always ends the invocation with exit code 1.
C7_ExitCodeTellsTheOutcome ==
    /\ Exited <=> exitCode \in {0, 1}
    /\ ~Exited => exitCode = -1 /\ \A l \in SuccessLines : ~Printed(l)
    /\ exitCode = 0 =>
          /\ error = "none"
          /\ Len(PlanCalls) = Len(Plan(answers, bundled))
          /\ \A k \in 1..Len(calls) : Completed(calls[k])
          /\ WrittenFiles \subseteq DOMAIN Tree.files
          /\ bundled.contracts => ContractFiles \subseteq DOMAIN Tree.files
          /\ \A l \in SuccessLines : Printed(l)
    /\ exitCode = 1 =>
          /\ error \in {"DirectoryExists", "PromptCancelled",
                        "ResourceReadFailure", "FilesystemWriteFailure"}
          /\ out[Len(out)].stream = "stderr"
          /\ out[Len(out)].arg = <<error>>
          /\ \A l \in SuccessLines : ~Printed(l)
    /\ (\E k \in 1..Len(calls) : ~Completed(calls[k])) => exitCode = 1

\* the very last write is rejected: exit code 1 and no success line
C7_Witness ==
    /\ Exited
    /\ exitCode = 1
    /\ Wrote("off-chain/executor/index.ts")
    /\ ~calls[Len(calls)].ok

----------------------------------------------------------------------------
(* C8 *)

\* the number of calls of the plan that completed: i is the next one
Acked == i - 1

WithTemplate(config, t) == [config EXCEPT !.template = t]

\* C8: at every point of an invocation the tree under the project path is the
\* tree the same number of calls would have left had the other template been
\* answered: directories, files and contents do not depend on the template
\* (nor on the --template flag, which only presets the prompt).
C8_TemplateChangesNothing ==
    (pc # "idle" /\ answers # NoAnswers) =>
        \A t \in Templates : Tree = Replay(Acked, WithTemplate(answers, t))

\* a complete oracle project, chosen at the prompt against the flag
C8_Witness ==
    /\ Exited
    /\ exitCode = 0
    /\ answers.template = "oracle"
    /\ template = "task-based"
    /\ AllBundled

----------------------------------------------------------------------------
(* C9 *)

SubDirectories ==
    {"contracts", "contracts/interfaces", "scripts", "test", "off-chain",
     "off-chain/aggregator", "off-chain/executor"}

EnsuredBefore(k, d) ==
    \E j \in 1..(k - 1) :
        calls[j].op = "ensureDir" /\ calls[j].path = d /\ calls[j].ok

\* the directory an artifact lands in
LandsIn(c) ==
    IF c.op = "copy" /\ c.path = "contracts/interfaces" THEN c.path
    ELSE Parent(c.path)

\* C9: the calls of an invocation come in the order pathExists, prompt,
\* ensureDir of the root, ensureDir of the seven sub-directories, then the
\* copies and writes; a call is made only after the previous one completed;
\* whenever a call after the root's ensureDir has just been made the root
\* has been created, and whenever a copy or a write has just been made the
\* seven sub-directories and the directory it lands in have been created by
\* this invocation; and every file on disk under the project path lies in
\* an existing directory.
C9_DirectoriesBeforeArtifacts ==
    pc # "idle" =>
        LET n == Len(calls)
        IN  /\ n >= 1 => calls[1].op = "pathExists"
            /\ n >= 2 => calls[2].op = "prompt"
            /\ n >= 3 => calls[3].op = "ensureDir" /\ calls[3].path = Root
            /\ \A k \in 1..(n - 1) : Completed(calls[k])
            /\ n > 3 => EnsuredBefore(n, Root)
            /\ (n >= 1 /\ calls[n].op \in {"copy", "writeFile", "writeJSON"}) =>
                  /\ \A d \in SubDirectories : EnsuredBefore(n, d)
                  /\ EnsuredBefore(n, LandsIn(calls[n]))
            /\ \A f \in DOMAIN Tree.files : Parent(f) \in Tree.dirs

\* a complete run: the check, the prompt and every call of the plan
C9_Witness ==
    /\ Exited
    /\ exitCode = 0
    /\ AllBundled
    /\ Len(calls) = Len(Plan(answers, bundled)) + 2
    /\ DOMAIN Tree.files = FixedFileSet

----------------------------------------------------------------------------
(* C10 *)

WithName(config, n) == [config EXCEPT !.projectName = n]

NamedFiles == {"package.json", "off-chain/package.json"}

====
